---- MODULE Spec2Model ----
(***************************************************************************)
(* Model of the webpanel camera backend:                                   *)
(*   - CameraManager.get_available_cameras / get_available_cameras         *)
(*     (the device enumerator),                                            *)
(*   - CameraManager.generate_frames / generate_frames (the frame          *)
(*     pipeline, a Python generator),                                      *)
(*   - the Flask route video_feed that parses the query parameters and     *)
(*     hands the generator to the WSGI server.                             *)
(* The capture backend (cv2.VideoCapture, cv2.imencode) is the             *)
(* environment: the outcome of each of its calls is chosen                 *)
(* nondeterministically.                                                   *)
(***************************************************************************)
EXTENDS Integers, Sequences, FiniteSets, TLC

\* ------------------------------------------------------------------ bounds
\* Largest number of frames one session's backend delivers before its
\* reads fail.
MaxFrames == 2

\* Largest number of hot-plug events (a device appearing or disappearing)
\* while the enumerator is observed.
MaxPlugs == 1

\* The concurrent stream requests served by the threaded server.
Sessions == {"r1", "r2"}

\* ------------------------------------------------------- program constants
\* range(10) of the enumeration loop.
MaxIndex == 10
\* Defaults of video_feed.
DefaultWidth == 640
DefaultHeight == 480

\* --------------------------------------------------------- text and parsing
\* Text is a sequence of one-character strings.
Digits == <<"0", "1", "2", "3", "4", "5", "6", "7", "8", "9">>

IsDigit(c) == \E d \in 1..10 : Digits[d] = c

DigitVal(c) == (CHOOSE d \in 1..10 : Digits[d] = c) - 1

\* str.strip() as int() applies it to its argument.
RECURSIVE LStrip(_)
LStrip(t) == IF t # <<>> /\ t[1] = " " THEN LStrip(Tail(t)) ELSE t

RECURSIVE RStrip(_)
RStrip(t) ==
    IF t # <<>> /\ t[Len(t)] = " " THEN RStrip(SubSeq(t, 1, Len(t) - 1)) ELSE t

Strip(t) == LStrip(RStrip(t))

HasSign(t) == t # <<>> /\ t[1] \in {"+", "-"}

Unsigned(t) == IF HasSign(t) THEN Tail(t) ELSE t

\* The decimal literals int() accepts: optional sign, digits, single
\* underscores between digits, surrounding blanks ignored.
IsIntLiteral(tok) ==
    LET b == Unsigned(Strip(tok))
    IN  /\ b # <<>>
        /\ \A k \in 1..Len(b) : IsDigit(b[k]) \/ b[k] = "_"
        /\ IsDigit(b[1])
        /\ IsDigit(b[Len(b)])
        /\ \A k \in 1..(Len(b) - 1) : ~(b[k] = "_" /\ b[k + 1] = "_")

RECURSIVE NatOf(_, _)
NatOf(b, acc) ==
    IF b = <<>> THEN acc
    ELSE IF b[1] = "_" THEN NatOf(Tail(b), acc)
    ELSE NatOf(Tail(b), 10 * acc + DigitVal(b[1]))

\* int(tok) for a token IsIntLiteral accepts (int raises ValueError otherwise).
IntOf(tok) ==
    LET t == Strip(tok)
        n == NatOf(Unsigned(t), 0)
    IN  IF HasSign(t) /\ t[1] = "-" THEN 0 - n ELSE n

\* str.split(sep) for a one-character separator.
RECURSIVE Split(_, _, _)
Split(t, sep, cur) ==
    IF t = <<>> THEN <<cur>>
    ELSE IF t[1] = sep THEN <<cur>> \o Split(Tail(t), sep, <<>>)
    ELSE Split(Tail(t), sep, Append(cur, t[1]))

\* A query parameter the request does not carry.
Absent == <<"<absent>">>

\* request.args.get(name, default)
ArgsGet(tok, default) == IF tok = Absent THEN default ELSE tok

\* The try block of video_feed: TRUE iff neither int() nor the unpacking of
\* the split resolution raises ValueError.
ParamsParse(device_id_str, res_str) ==
    LET parts == Split(res_str, "x", <<>>)
    IN  /\ IsIntLiteral(device_id_str)
        /\ Len(parts) = 2
        /\ \A k \in 1..Len(parts) : IsIntLiteral(parts[k])

\* RouteParams with one try block per parameter: each falls back to its
\* default on its own.
RouteParamsSeparate(device_tok, res_tok) ==
    LET device_id_str == ArgsGet(device_tok, <<"0">>)
        res_str == ArgsGet(res_tok, <<"6", "4", "0", "x", "4", "8", "0">>)
        parts == Split(res_str, "x", <<>>)
    IN  [device_id |-> IF IsIntLiteral(device_id_str) THEN IntOf(device_id_str) ELSE 0,
         resolution |-> IF ParamsParse(<<"0">>, res_str)
                        THEN <<IntOf(parts[1]), IntOf(parts[2])>>
                        ELSE <<DefaultWidth, DefaultHeight>>]

\* The (device_id, resolution) video_feed passes to generate_frames.
RouteParams(device_tok, res_tok) ==
    LET device_id_str == ArgsGet(device_tok, <<"0">>)
        res_str == ArgsGet(res_tok, <<"6", "4", "0", "x", "4", "8", "0">>)
        parts == Split(res_str, "x", <<>>)
    IN  IF ParamsParse(device_id_str, res_str)
        THEN [device_id |-> IntOf(device_id_str),
              resolution |-> <<IntOf(parts[1]), IntOf(parts[2])>>]
        ELSE [device_id |-> 0,
              resolution |-> <<DefaultWidth, DefaultHeight>>]

\* ------------------------------------------------------------ input domains
\* Device tokens a client sends to /video_feed.
DeviceTokens == {<<"1">>, <<"a">>}
\* Resolution tokens a client sends to /video_feed.
ResTokens == {<<"8", "x", "6">>, <<"x">>}

\* A device_id argument of generate_frames: an int, or text.
IntArg(n) == [isInt |-> TRUE, n |-> n, text |-> <<>>]
TextArg(t) == [isInt |-> FALSE, n |-> 0, text |-> t]
\* Arguments of direct calls of generate_frames.
DirectArgs == {IntArg(0), TextArg(<<"a">>)}

\* int(device_id) of generate_frames succeeds.
WellFormed(d) == d.isInt \/ IsIntLiteral(d.text)

Impls == {"CameraManager", "function"}

\* ----------------------------------------------------------- wire format
\* Bytes are a sequence of tokens: a run of text, or one control character.
CRLF == <<"\r", "\n">>

\* buffer.tobytes(): the JPEG bytes of the frame read n-th.
Jpeg(n) == <<"JPEG", Digits[(n % 10) + 1]>>

\* MultipartChunk without the empty line that ends the part headers.
MultipartChunkNoBlankLine(frame_bytes) ==
    (<<"--frame">> \o CRLF)
    \o (<<"Content-Type: image/jpeg">> \o CRLF)
    \o frame_bytes \o CRLF

\* b'--frame\r\n' b'Content-Type: image/jpeg\r\n\r\n' + frame_bytes + b'\r\n'
MultipartChunk(frame_bytes) ==
    (<<"--frame">> \o CRLF)
    \o (<<"Content-Type: image/jpeg">> \o CRLF \o CRLF)
    \o frame_bytes \o CRLF

\* mimetype='multipart/x-mixed-replace; boundary=frame'
Mimetype == <<"multipart/x-mixed-replace", ";", " ", "boundary", "=", "frame">>

\* ------------------------------------------------------------------- state
VARIABLES
    sess,      \* sess[s]: the generator object of request s and its consumer
    enum,      \* the running call of get_available_cameras
    openable   \* the device indices the host can open right now

vars == <<sess, enum, openable>>

\* No generator exists yet for the request.
NoSession ==
    [impl |-> "none", via |-> "none", request_device |-> <<>>,
     device_id |-> IntArg(0), resolution |-> <<DefaultWidth, DefaultHeight>>,
     pc |-> "none", cap |-> "none", mismatch |-> FALSE, consumer |-> "idle",
     opens |-> 0, releases |-> 0, read_calls |-> 0, frames |-> 0,
     chunks |-> <<>>, skipped |-> {}, received |-> 0, raised |-> "none",
     exit |-> "none",
     \* the resolution token of the request and the mimetype of its Response
     request_resolution |-> <<>>, mimetype |-> <<>>,
     \* the number of next() calls made, and the bytes of the latest yield
     pulls |-> 0, yielded |-> <<>>]

\* NewGenerator for a plain function that opens the device when it is called.
NewGeneratorEager(im, via, tok, d, res) ==
    [NoSession EXCEPT !.impl = im, !.via = via, !.request_device = tok,
                      !.device_id = d, !.resolution = res, !.pc = "created",
                      !.opens = 1, !.cap = "open"]

\* Calling a generator function runs none of its body: the generator object
\* is created suspended before its first statement.
NewGenerator(im, via, tok, d, res) ==
    [NoSession EXCEPT !.impl = im, !.via = via, !.request_device = tok,
                      !.device_id = d, !.resolution = res, !.pc = "created"]

\* The generator returns or raises: the pull in progress ends.
Finish(r, exit, raised) ==
    [r EXCEPT !.pc = "closed", !.exit = exit, !.raised = raised,
              !.consumer = IF r.consumer = "gone" THEN "gone" ELSE "idle"]

\* No call of get_available_cameras has been made.
NoEnum ==
    [pc |-> "idle", i |-> 0, available_cameras |-> <<>>, opens |-> 0,
     releases |-> 0, held |-> {}, opened |-> {}, failed |-> {},
     \* What an observer of consecutive calls records: the mapping the
     \* previous call returned, and whether the openable devices changed
     \* during the previous call or since.
     has_previous |-> FALSE, previous |-> <<>>, changed_before |-> FALSE,
     changed |-> FALSE, plugs |-> 0]

Init ==
    /\ sess = [s \in Sessions |-> NoSession]
    /\ enum = NoEnum
    /\ openable = {}

\* ------------------------------------------------------- the stream session
\* GET /video_feed: parse the parameters, create the generator and hand it
\* to the Response.
VideoFeed(s, device_tok, res_tok) ==
    LET p == RouteParams(device_tok, res_tok)
    IN  /\ sess[s].pc = "none"
        /\ sess' = [sess EXCEPT ![s] =
                [NewGenerator("CameraManager", "route", device_tok,
                              IntArg(p.device_id), p.resolution)
                    EXCEPT !.request_resolution = res_tok,
                           !.mimetype = Mimetype]]
        /\ UNCHANGED <<enum, openable>>

\* A direct call of generate_frames (either implementation) with argument d.
GenerateFrames(s, im, d) ==
    /\ sess[s].pc = "none"
    /\ sess' = [sess EXCEPT ![s] =
            NewGenerator(im, "direct", <<>>, d, <<DefaultWidth, DefaultHeight>>)]
    /\ UNCHANGED <<enum, openable>>

\* The consumer asks for the next chunk: next() on the generator.
NextChunk(s) ==
    LET r == sess[s]
    IN  /\ r.consumer = "idle"
        /\ r.pc \in {"created", "suspended"}
        /\ sess' = [sess EXCEPT ![s] =
                [r EXCEPT !.consumer = "pulling", !.pulls = @ + 1,
                          !.pc = IF r.pc = "created" THEN "opening" ELSE "reading"]]
        /\ UNCHANGED <<enum, openable>>

\* Whether the implementation checks int(device_id) before opening.
Validates(im) == im = "function"

\* cap = cv2.VideoCapture(...) and cap.isOpened() is true.
OpenSucceeds(r) == [r EXCEPT !.opens = @ + 1, !.cap = "open", !.pc = "configuring"]

\* OpenFails without its return: the generator goes on to configure and read
\* a capture object that never opened.
OpenFailsFallsThrough(r) ==
    [r EXCEPT !.opens = @ + 1, !.cap = "unopened", !.pc = "configuring"]

\* cap = cv2.VideoCapture(...) and cap.isOpened() is false: return.
OpenFails(r) ==
    Finish([r EXCEPT !.opens = @ + 1, !.cap = "unopened"], "openfail", "none")

\* From the first statement to the isOpened() test. Whether a second open of
\* a device another session holds succeeds is the driver's decision.
Open(s) ==
    LET r == sess[s]
    IN  /\ r.pc = "opening"
        /\ IF Validates(r.impl) /\ ~WellFormed(r.device_id)
           THEN sess' = [sess EXCEPT ![s] = Finish(r, "invalid", "none")]
           ELSE \E isOpened \in BOOLEAN :
                  sess' = [sess EXCEPT ![s] =
                      IF isOpened THEN OpenSucceeds(r) ELSE OpenFails(r)]
        /\ UNCHANGED <<enum, openable>>

\* What the generator does when cap.set / cap.get / int() raises while the
\* resolution is configured: these statements precede the try block, so the
\* exception leaves the generator at once and the finally block is not run.
ConfigureRaises(r) == Finish(r, "exception", "configure")

\* Configured on a pipeline that gives up when the device does not report the
\* requested resolution.
ConfiguredOrAbort(r, substituted) ==
    IF substituted
    THEN Finish([r EXCEPT !.mismatch = TRUE, !.releases = @ + 1,
                          !.cap = "released"], "mismatch", "none")
    ELSE [r EXCEPT !.pc = "reading"]

\* The actual resolution was read back: a mismatch is at most printed
\* (module1.py prints a warning, camera_module.py nothing) and the loop is
\* entered.
Configured(r, substituted) ==
    [r EXCEPT !.mismatch = substituted, !.pc = "reading"]

\* cap.set(width), cap.set(height), and the read-back of the actual values.
Configure(s) ==
    LET r == sess[s]
    IN  /\ r.pc = "configuring"
        /\ \E outcome \in {"honoured", "substituted", "raises"} :
              sess' = [sess EXCEPT ![s] =
                  IF outcome = "raises" THEN ConfigureRaises(r)
                  ELSE Configured(r, outcome = "substituted")]
        /\ UNCHANGED <<enum, openable>>

\* ReadFails with a return that bypasses the finally block.
ReadFailsReturns(r) == Finish([r EXCEPT !.read_calls = @ + 1], "readfail", "none")

\* cap.read() returned success = False: break.
ReadFails(r) == [r EXCEPT !.read_calls = @ + 1, !.pc = "finally", !.exit = "readfail"]

\* success, frame = cap.read()
Read(s) ==
    LET r == sess[s]
    IN  /\ r.pc = "reading"
        /\ \E success \in BOOLEAN :
              /\ success => r.frames < MaxFrames
              /\ sess' = [sess EXCEPT ![s] =
                    IF success
                    THEN [r EXCEPT !.read_calls = @ + 1, !.frames = @ + 1,
                                   !.pc = "encoding"]
                    ELSE ReadFails(r)]
        /\ UNCHANGED <<enum, openable>>

\* Yield on a pipeline that reads the next frame before it suspends.
YieldReadsAhead(r) ==
    [r EXCEPT !.chunks = Append(@, r.frames), !.pc = "suspended",
              !.yielded = MultipartChunk(Jpeg(r.frames)),
              !.read_calls = @ + 1, !.frames = @ + 1,
              !.received = IF r.consumer = "gone" THEN @ ELSE @ + 1,
              !.consumer = IF r.consumer = "gone" THEN "gone" ELSE "idle"]

\* Yield on a pipeline that hands the newest chunk over ahead of the ones
\* produced before it.
YieldNewestFirst(r) ==
    [r EXCEPT !.chunks = <<r.frames>> \o @, !.pc = "suspended",
              !.received = IF r.consumer = "gone" THEN @ ELSE @ + 1,
              !.consumer = IF r.consumer = "gone" THEN "gone" ELSE "idle"]

\* yield: the chunk of the current frame is handed to the consumer and the
\* generator suspends.
Yield(r) ==
    [r EXCEPT !.chunks = Append(@, r.frames), !.pc = "suspended",
              !.yielded = MultipartChunk(Jpeg(r.frames)),
              !.received = IF r.consumer = "gone" THEN @ ELSE @ + 1,
              !.consumer = IF r.consumer = "gone" THEN "gone" ELSE "idle"]

\* EncodeFails with break in place of continue.
EncodeFailsBreaks(r) ==
    [r EXCEPT !.skipped = @ \cup {r.frames}, !.pc = "finally", !.exit = "readfail"]

\* ret = False: "Failed to encode frame." and continue.
EncodeFails(r) == [r EXCEPT !.skipped = @ \cup {r.frames}, !.pc = "reading"]

\* cv2.imencode of the current frame, and what follows it in the loop body.
Encode(s) ==
    LET r == sess[s]
    IN  /\ r.pc = "encoding"
        /\ \E outcome \in {"ok", "fails", "raises"} :
              sess' = [sess EXCEPT ![s] =
                  CASE outcome = "ok" -> Yield(r)
                    [] outcome = "fails" -> EncodeFails(r)
                    [] outcome = "raises" ->
                          [r EXCEPT !.pc = "finally", !.exit = "exception",
                                    !.raised = "encode"]]
        /\ UNCHANGED <<enum, openable>>

\* The finally block: cap.release(); then the generator ends.
Finally(r) ==
    Finish([r EXCEPT !.releases = @ + 1, !.cap = "released"], r.exit, r.raised)

\* Release on a manager that keeps one capture object for all its streams:
\* releasing it takes the handle from every session.
ReleaseShared(s) ==
    /\ sess[s].pc = "finally"
    /\ sess' = [u \in Sessions |->
                IF u = s THEN Finally(sess[s])
                ELSE IF sess[u].cap = "open" THEN [sess[u] EXCEPT !.cap = "released"]
                ELSE sess[u]]
    /\ UNCHANGED <<enum, openable>>

Release(s) ==
    /\ sess[s].pc = "finally"
    /\ sess' = [sess EXCEPT ![s] = Finally(sess[s])]
    /\ UNCHANGED <<enum, openable>>

\* The client goes away: it will make no further pull.
Vanish(s) ==
    /\ sess[s].pc \notin {"none", "closed"}
    /\ sess[s].consumer # "gone"
    /\ sess' = [sess EXCEPT ![s].consumer = "gone"]
    /\ UNCHANGED <<enum, openable>>

\* Close on a generator whose loop body catches GeneratorExit and goes on.
CloseSwallowed(r) ==
    IF r.pc = "created" THEN Finish(r, "cancel", "none")
    ELSE [r EXCEPT !.pc = "reading", !.exit = "cancel"]

\* close() on the generator: GeneratorExit is raised at the yield where it is
\* suspended; a generator that never started just ends.
Close(r) ==
    IF r.pc = "created" THEN Finish(r, "cancel", "none")
    ELSE [r EXCEPT !.pc = "finally", !.exit = "cancel"]

\* The server closes the response iterable of a client that is gone.
Cancel(s) ==
    /\ sess[s].consumer = "gone"
    /\ sess[s].pc \in {"created", "suspended"}
    /\ sess' = [sess EXCEPT ![s] = Close(sess[s])]
    /\ UNCHANGED <<enum, openable>>

SessionStep(s) ==
    \/ Open(s)
    \/ Configure(s)
    \/ Read(s)
    \/ Encode(s)
    \/ Release(s)

Next ==
    \E s \in Sessions :
        \/ \E d \in DeviceTokens, t \in ResTokens : VideoFeed(s, d, t)
        \/ \E im \in Impls, d \in DirectArgs : GenerateFrames(s, im, d)
        \/ NextChunk(s)
        \/ SessionStep(s)
        \/ Vanish(s)
        \/ Cancel(s)

Spec == Init /\ [][Next]_vars

\* Each request is served by its own thread, which keeps running; the server
\* closes the iterable of a vanished client once the generator is suspended.
Fairness ==
    \A s \in Sessions : WF_vars(SessionStep(s)) /\ WF_vars(Cancel(s))

FairSpec == Init /\ [][Next]_vars /\ Fairness

\* --------------------------------------------------- parameters of the route
\* Device tokens of requests to /video_feed: a number, text, none, empty,
\* signed, padded, with an underscore.
ParseDeviceTokens ==
    {<<"1">>, <<"a">>, Absent, <<>>, <<"-", "1">>, <<" ", "2">>, <<"1", "_", "0">>}

\* Resolution tokens of requests to /video_feed.
ParseResTokens ==
    {Absent,
     <<"8", "x", "6">>,
     <<"x">>,
     <<"0", "x", "6">>,
     <<"-", "8", "x", "6">>,
     <<"8", "x", "6", "x", "4">>,
     <<"8">>,
     <<"a", "x", "6">>,
     <<"+", "8", "x", " ", "6">>}

\* Requests to /video_feed with any of these parameters.
ParseNext ==
    \E s \in Sessions :
        \E d \in ParseDeviceTokens, t \in ParseResTokens : VideoFeed(s, d, t)

ParseSpec == Init /\ [][ParseNext]_vars

\* ------------------------------------------------------- device enumeration
\* str(i): the decimal digits of a natural number.
RECURSIVE Str(_)
Str(n) == IF n < 10 THEN <<Digits[n + 1]>> ELSE Append(Str(n \div 10), Digits[(n % 10) + 1])

\* f"Device {i}"
Label(i) == <<"D", "e", "v", "i", "c", "e", " ">> \o Str(i)

Indices == 0..(MaxIndex - 1)

EnumInit ==
    /\ sess = [s \in Sessions |-> NoSession]
    /\ enum = NoEnum
    /\ openable \in SUBSET Indices

\* get_available_cameras is called: available_cameras = {} and the loop
\* starts at index 0.
\* StartCall on an enumerator that keeps its mapping between calls (a
\* mapping stored on the manager instead of a local).
StartCallKeeps(e) ==
    [NoEnum EXCEPT !.pc = "open",
                   !.available_cameras = e.available_cameras,
                   !.has_previous = (e.pc = "returned"),
                   !.previous = e.available_cameras,
                   !.changed_before = e.changed,
                   !.plugs = e.plugs]

\* The state in which a call starts: every local is fresh, whatever an
\* earlier call did.
StartCall(e) ==
    [NoEnum EXCEPT !.pc = "open",
                   !.has_previous = (e.pc = "returned"),
                   !.previous = e.available_cameras,
                   !.changed_before = e.changed,
                   !.plugs = e.plugs]

GetAvailableCameras ==
    /\ enum.pc \in {"idle", "returned"}
    /\ enum' = StartCall(enum)
    /\ UNCHANGED <<sess, openable>>

\* A device is plugged in or removed. The enumerator looks at the host only
\* in cv2.VideoCapture(i), so an event during the isOpened() test of an
\* iteration acts as the same event right after it.
HotPlug(i) ==
    /\ enum.plugs < MaxPlugs
    /\ enum.pc # "check"
    /\ openable' = IF i \in openable THEN openable \ {i} ELSE openable \cup {i}
    /\ enum' = [enum EXCEPT !.plugs = @ + 1, !.changed = TRUE]
    /\ UNCHANGED sess

\* cap = cv2.VideoCapture(i, ...)
EnumOpen ==
    /\ enum.pc = "open"
    /\ enum.i < MaxIndex
    /\ enum' = [enum EXCEPT !.opens = @ + 1, !.pc = "check",
                            !.held = IF enum.i \in openable THEN @ \cup {enum.i} ELSE @]
    /\ UNCHANGED <<sess, openable>>

\* Record without the cap.release() call.
RecordNoRelease(e) ==
    [e EXCEPT !.available_cameras = Append(@, <<e.i, Label(e.i)>>),
              !.opened = @ \cup {e.i}]

\* if cap.isOpened(): record the label and release the handle.
Record(e) ==
    [e EXCEPT !.available_cameras = Append(@, <<e.i, Label(e.i)>>),
              !.opened = @ \cup {e.i},
              !.releases = @ + 1,
              !.held = @ \ {e.i}]

\* Skip with the isOpened() test missing: the index is recorded all the same.
SkipRecords(e) ==
    [e EXCEPT !.failed = @ \cup {e.i},
              !.available_cameras = Append(@, <<e.i, Label(e.i)>>)]

\* cap.isOpened() is false: nothing is recorded and nothing is released.
Skip(e) == [e EXCEPT !.failed = @ \cup {e.i}]

\* The isOpened() test of one iteration, and the step to the next index.
EnumCheck ==
    /\ enum.pc = "check"
    /\ enum' = [(IF enum.i \in enum.held THEN Record(enum) ELSE Skip(enum))
                    EXCEPT !.i = @ + 1, !.pc = "open"]
    /\ UNCHANGED <<sess, openable>>

\* return available_cameras
EnumReturn ==
    /\ enum.pc = "open"
    /\ enum.i = MaxIndex
    /\ enum' = [enum EXCEPT !.pc = "returned"]
    /\ UNCHANGED <<sess, openable>>

EnumNext ==
    \/ GetAvailableCameras
    \/ EnumOpen
    \/ EnumCheck
    \/ EnumReturn
    \/ \E i \in Indices : HotPlug(i)

EnumSpec == EnumInit /\ [][EnumNext]_vars

\* =================================================================== claims
\* The session's device open succeeded.
Opened(r) == r.cap \in {"open", "released"}

\* The identifier the stream was asked for cannot be read as an integer.
Malformed(r) ==
    /\ r.pc # "none"
    /\ IF r.via = "route" THEN ~IsIntLiteral(ArgsGet(r.request_device, <<"0">>))
       ELSE ~WellFormed(r.device_id)

\* The frame numbers a chunk was produced for.
ChunkFrames(r) == {r.chunks[k] : k \in 1..Len(r.chunks)}

\* C1: a session whose open succeeded calls release exactly once however it
\* ends (exception while configuring, read failure, exception while
\* encoding, completion, cancellation): never twice, and once it has ended,
\* not zero times.
C1_ReleaseExactlyOnce ==
    \A s \in Sessions :
        /\ sess[s].releases <= 1
        /\ (sess[s].pc = "closed" /\ Opened(sess[s])) => sess[s].releases = 1

\* C2: when the reads succeed N times and then fail and every frame
\* compresses, a consumer that pulls to the end has received exactly N
\* chunks, no error was raised and release was called exactly once.
C2_NFramesNChunks ==
    \A s \in Sessions :
        LET r == sess[s]
        IN  (/\ r.pc = "closed"
             /\ r.exit = "readfail"
             /\ r.skipped = {}
             /\ r.consumer # "gone")
            => /\ r.received = r.frames
               /\ Len(r.chunks) = r.frames
               /\ r.raised = "none"
               /\ r.releases = 1

C2_Witness ==
    \E s \in Sessions :
        /\ sess[s].pc = "closed"
        /\ sess[s].exit = "readfail"
        /\ sess[s].skipped = {}
        /\ sess[s].consumer # "gone"
        /\ sess[s].frames = MaxFrames
        /\ sess[s].received = MaxFrames

\* C3: once the consumer has abandoned the sequence after M >= 1 chunks, the
\* loop is left (the generator only runs its finally block and ends), no
\* further read is made on the handle, and when the generator has ended
\* exactly one release call has been made.
C3_CancelReleasesOnce ==
    /\ [](\A s \in Sessions :
            (sess[s].exit = "cancel" /\ Len(sess[s].chunks) >= 1)
            => /\ sess[s].pc \in {"finally", "closed"}
               /\ sess[s].releases = (IF sess[s].pc = "closed" THEN 1 ELSE 0))
    /\ [][\A s \in Sessions :
            (sess[s].exit = "cancel" /\ Len(sess[s].chunks) >= 1)
            => /\ sess'[s].read_calls = sess[s].read_calls
               /\ sess'[s].chunks = sess[s].chunks]_vars

C3_Witness ==
    \E s \in Sessions :
        /\ sess[s].pc = "closed"
        /\ sess[s].exit = "cancel"
        /\ Len(sess[s].chunks) = 1
        /\ sess[s].frames < MaxFrames
        /\ sess[s].releases = 1

\* C4: after the consumer of a session that holds an open handle is gone,
\* the session eventually releases the handle.
C4_GoneLeadsToRelease ==
    \A s \in Sessions :
        (sess[s].consumer = "gone" /\ sess[s].cap = "open")
            ~> (sess[s].cap = "released")

\* C5: when compression fails for exactly one of the N frames read, the
\* stream is not ended by that failure, and it ends on the later read
\* failure having produced exactly N-1 chunks, none of them for the failed
\* frame, with no error and exactly one release call.
C5_OneEncodeFailure ==
    /\ [](\A s \in Sessions :
            LET r == sess[s]
            IN  (/\ r.pc = "closed"
                 /\ r.exit = "readfail"
                 /\ Cardinality(r.skipped) = 1)
                => /\ Len(r.chunks) = r.frames - 1
                   /\ ChunkFrames(r) \cap r.skipped = {}
                   /\ r.raised = "none"
                   /\ r.releases = 1)
    /\ [][\A s \in Sessions :
            sess'[s].skipped # sess[s].skipped
            => /\ sess'[s].pc = "reading"
               /\ sess'[s].cap = "open"
               /\ sess'[s].releases = 0]_vars

C5_Witness ==
    \E s \in Sessions :
        /\ sess[s].pc = "closed"
        /\ sess[s].exit = "readfail"
        /\ sess[s].skipped = {1}
        /\ sess[s].frames = MaxFrames
        /\ Len(sess[s].chunks) = MaxFrames - 1

\* C6: a stream opened with a malformed device identifier yields no chunk
\* and makes no open call and no release call, in both implementations of
\* generate_frames and through the video_feed route.
C6_MalformedNoBackendCall ==
    \A s \in Sessions :
        Malformed(sess[s])
        => /\ sess[s].opens = 0
           /\ sess[s].releases = 0
           /\ sess[s].chunks = <<>>

\* C7: when the backend fails to open the device, the session is Closed
\* with zero chunks, no error raised, no read made on the handle and at most
\* one release call.
C7_OpenFailure ==
    \A s \in Sessions :
        sess[s].cap = "unopened"
        => /\ sess[s].pc = "closed"
           /\ sess[s].chunks = <<>>
           /\ sess[s].raised = "none"
           /\ sess[s].read_calls = 0
           /\ sess[s].releases <= 1

C7_Witness ==
    \E s \in Sessions :
        /\ sess[s].cap = "unopened"
        /\ sess[s].opens = 1
        /\ sess[s].exit = "openfail"

\* C8 as stated: when get_available_cameras has returned, the number of open
\* calls it made equals the number of release calls it made.
C8_OpensEqualReleases ==
    enum.pc = "returned" => enum.opens = enum.releases

\* C8 as amended: when get_available_cameras has returned, no handle is left
\* open, and the number of release calls equals the number of open calls
\* that succeeded (an open call that fails is followed by no release).
C8_NoHandleLeftOpen ==
    enum.pc = "returned"
    => /\ enum.held = {}
       /\ enum.releases = Cardinality(enum.opened)
       /\ enum.opens = Cardinality(enum.opened) + Cardinality(enum.failed)

C8_Witness ==
    /\ enum.pc = "returned"
    /\ Cardinality(enum.opened) = 2
    /\ Cardinality(enum.failed) = MaxIndex - 2

\* The keys of the mapping, in the order the mapping lists them.
Keys(e) == [k \in 1..Len(e.available_cameras) |-> e.available_cameras[k][1]]

\* The text that follows "Device " in a label reads back as the index.
LabelNames(label, i) ==
    /\ Len(label) > 7
    /\ SubSeq(label, 1, 7) = <<"D", "e", "v", "i", "c", "e", " ">>
    /\ IsIntLiteral(SubSeq(label, 8, Len(label)))
    /\ IntOf(SubSeq(label, 8, Len(label))) = i
    /\ ~HasSign(SubSeq(label, 8, Len(label)))

\* C9: the mapping get_available_cameras returns has its keys in
\* [0, maxIndex), holds no index whose open failed, lists exactly the
\* indices that opened in ascending order, and labels each "Device <index>".
C9_EnumerationResult ==
    enum.pc = "returned"
    => LET keys == Keys(enum)
       IN  /\ \A k \in 1..Len(keys) : keys[k] \in 0..(MaxIndex - 1)
           /\ \A k \in 1..Len(keys) : keys[k] \notin enum.failed
           /\ {keys[k] : k \in 1..Len(keys)} = enum.opened
           /\ \A j, k \in 1..Len(keys) : j < k => keys[j] < keys[k]
           /\ \A k \in 1..Len(keys) :
                 LabelNames(enum.available_cameras[k][2], keys[k])

C9_Witness ==
    /\ enum.pc = "returned"
    /\ Len(enum.available_cameras) = 3
    /\ enum.available_cameras[3][1] = 9
    /\ enum.failed # {}

\* C10: at no time do two sessions hold an open capture handle for the same
\* device identifier.
C10_ExclusiveDevice ==
    \A s, t \in Sessions :
        (s # t /\ sess[s].cap = "open" /\ sess[t].cap = "open")
        => sess[s].device_id # sess[t].device_id


\* The frame whose compression is in progress, or raised an exception.
Uncompressed(r) ==
    IF r.pc = "encoding" \/ r.raised = "encode" THEN {r.frames} ELSE {}

\* C11: the chunks of a session are in the order their frames were read,
\* every frame that was read and compressed has exactly one chunk, and no
\* chunk exists for a frame whose compression failed.
C11_ChunkOrder ==
    \A s \in Sessions :
        LET r == sess[s]
        IN  /\ \A j, k \in 1..Len(r.chunks) : j < k => r.chunks[j] < r.chunks[k]
            /\ ChunkFrames(r) \cap r.skipped = {}
            /\ ChunkFrames(r) = (1..r.frames) \ (r.skipped \cup Uncompressed(r))

C11_Witness ==
    \E s \in Sessions :
        /\ Len(sess[s].chunks) = 2
        /\ sess[s].chunks[1] = 1
        /\ sess[s].pc = "suspended"


\* C12: a session whose device reported a resolution other than the
\* requested one is not ended by that: it enters the streaming loop with the
\* handle open, it ends only by a read failure, an encoding exception or a
\* cancellation, and it has a chunk for every frame read and compressed.
C12_MismatchDoesNotAbort ==
    \A s \in Sessions :
        LET r == sess[s]
        IN  r.mismatch
            => /\ r.pc \in {"reading", "encoding", "suspended", "finally", "closed"}
               /\ r.pc \in {"reading", "encoding", "suspended"} => r.cap = "open"
               /\ r.pc = "reading" \/ r.read_calls >= 1
               /\ r.exit \in {"none", "readfail", "cancel", "exception"}
               /\ r.raised # "configure"
               /\ ChunkFrames(r) = (1..r.frames) \ (r.skipped \cup Uncompressed(r))

C12_Witness ==
    \E s \in Sessions :
        /\ sess[s].mismatch
        /\ sess[s].pc = "closed"
        /\ sess[s].exit = "readfail"
        /\ Len(sess[s].chunks) = MaxFrames


\* C13: a call of get_available_cameras starts from fresh locals with no
\* handle held, and when it returns after an earlier call, with no change of
\* the openable devices since that earlier call started, it returns the
\* mapping the earlier call returned.
C13_EnumerationIdempotent ==
    /\ (enum.pc = "open" /\ enum.i = 0)
       => /\ enum.available_cameras = <<>>
          /\ enum.held = {}
    /\ (/\ enum.pc = "returned"
        /\ enum.has_previous
        /\ ~enum.changed_before
        /\ ~enum.changed)
       => enum.available_cameras = enum.previous

C13_Witness ==
    /\ enum.pc = "returned"
    /\ enum.has_previous
    /\ ~enum.changed_before
    /\ ~enum.changed
    /\ Len(enum.previous) = 2
    /\ Len(enum.available_cameras) = 2


\* A line of text followed by CR LF.
Line(text) == <<text, "\r", "\n">>

\* The value of the boundary parameter of a mimetype.
Boundary(m) == m[CHOOSE k \in 1..Len(m) : k > 2 /\ m[k - 2] = "boundary" /\ m[k - 1] = "="]

\* C14: whatever a session yields is the delimiter line "--frame", the
\* header line "Content-Type: image/jpeg", an empty line, the JPEG bytes of
\* the frame just read and a final CR LF, and nothing else; the route
\* declares multipart/x-mixed-replace with boundary "frame".
C14_WireFormat ==
    \A s \in Sessions :
        LET r == sess[s]
        IN  /\ r.pc = "suspended" => r.yielded # <<>>
            /\ r.yielded # <<>>
               => r.yielded = Line("--frame") \o Line("Content-Type: image/jpeg")
                              \o <<"\r", "\n">> \o Jpeg(r.chunks[Len(r.chunks)])
                              \o <<"\r", "\n">>
            /\ r.via = "route"
               => /\ r.mimetype[1] = "multipart/x-mixed-replace"
                  /\ Boundary(r.mimetype) = "frame"

C14_Witness ==
    \E s \in Sessions :
        /\ sess[s].via = "route"
        /\ sess[s].pc = "suspended"
        /\ Len(sess[s].chunks) = 2
        /\ Len(sess[s].yielded) = 12


\* The resolution token the route reads: the parameter, or "640x480".
ResStr(r) == ArgsGet(r.request_resolution, <<"6", "4", "0", "x", "4", "8", "0">>)

\* The device token the route reads: the parameter, or "0".
DeviceStr(r) == ArgsGet(r.request_device, <<"0">>)

\* The token is WIDTHxHEIGHT with two integers.
TwoIntegers(tok) ==
    \E k \in 1..Len(tok) :
        /\ tok[k] = "x"
        /\ \A j \in 1..Len(tok) : tok[j] = "x" => j = k
        /\ IsIntLiteral(SubSeq(tok, 1, k - 1))
        /\ IsIntLiteral(SubSeq(tok, k + 1, Len(tok)))

Width(tok) == IntOf(SubSeq(tok, 1, (CHOOSE k \in 1..Len(tok) : tok[k] = "x") - 1))

Height(tok) == IntOf(SubSeq(tok, (CHOOSE k \in 1..Len(tok) : tok[k] = "x") + 1, Len(tok)))

\* The token is WIDTHxHEIGHT with two positive integers.
WellFormedResolution(tok) ==
    TwoIntegers(tok) /\ Width(tok) > 0 /\ Height(tok) > 0

\* C15: the resolution video_feed hands to the pipeline is a pair of two
\* positive integers: the pair parsed from the WIDTHxHEIGHT token when it is
\* well formed, and (640, 480) when the token is absent or malformed.
C15_ResolutionPositive ==
    \A s \in Sessions :
        LET r == sess[s]
        IN  r.via = "route"
            => /\ r.resolution[1] > 0
               /\ r.resolution[2] > 0
               /\ r.resolution =
                    IF r.request_resolution # Absent
                       /\ WellFormedResolution(r.request_resolution)
                    THEN <<Width(r.request_resolution), Height(r.request_resolution)>>
                    ELSE <<640, 480>>

\* C20: video_feed starts the pipeline with device 0 and resolution
\* (640, 480) as soon as one of the two tokens fails to parse, whatever the
\* other is, and with exactly the parsed device and the parsed resolution
\* when both parse.
C20_JointFallback ==
    \A s \in Sessions :
        LET r == sess[s]
        IN  r.via = "route"
            => IF IsIntLiteral(DeviceStr(r)) /\ TwoIntegers(ResStr(r))
               THEN /\ r.device_id = IntArg(IntOf(DeviceStr(r)))
                    /\ r.resolution = <<Width(ResStr(r)), Height(ResStr(r))>>
               ELSE /\ r.device_id = IntArg(0)
                    /\ r.resolution = <<640, 480>>

C20_Witness ==
    \E s, u \in Sessions :
        /\ sess[s].via = "route"
        /\ sess[s].request_device = <<"1">>
        /\ sess[s].request_resolution = <<"8">>
        /\ sess[s].device_id = IntArg(0)
        /\ sess[u].via = "route"
        /\ sess[u].request_device = <<"a">>
        /\ sess[u].request_resolution = <<"8", "x", "6">>
        /\ sess[u].resolution = <<640, 480>>


\* C16: a session in Streaming (running a pull or suspended at a chunk) has
\* its handle open, and a session that is Closed or has not opened yet has
\* no open handle.
C16_HandleHeldWhileStreaming ==
    \A s \in Sessions :
        LET r == sess[s]
        IN  /\ r.pc \in {"reading", "encoding", "suspended"} => r.cap = "open"
            /\ r.pc \in {"none", "created", "opening", "closed"} => r.cap # "open"

\* C17: the pipeline reads only inside a pull: while it is suspended at a
\* chunk every frame read so far has been turned into a chunk or skipped
\* and every pull made so far has returned exactly one chunk; no pull
\* returns more than one chunk, and no read precedes the first pull.
C17_PullDriven ==
    \A s \in Sessions :
        LET r == sess[s]
        IN  /\ r.pc = "suspended"
               => /\ r.read_calls = Len(r.chunks) + Cardinality(r.skipped)
                  /\ r.frames = r.read_calls
                  /\ Len(r.chunks) = r.pulls
            /\ Len(r.chunks) <= r.pulls
            /\ r.pulls = 0 => r.read_calls = 0
            /\ r.frames <= Len(r.chunks) + Cardinality(r.skipped) + 1

C17_Witness ==
    \E s \in Sessions :
        /\ sess[s].pc = "suspended"
        /\ sess[s].pulls = 1
        /\ sess[s].read_calls = 2
        /\ Len(sess[s].chunks) = 1

\* C18: a step of one session leaves every other session (its state, its
\* handle, its chunks) as it was.
C18_SessionsIndependent ==
    [][\A s, u \in Sessions :
          (s # u /\ sess'[s] # sess[s]) => sess'[u] = sess[u]]_vars

C18_Witness ==
    \E s, u \in Sessions :
        /\ sess[s].device_id # sess[u].device_id
        /\ sess[s].cap = "released"
        /\ sess[s].exit = "readfail"
        /\ sess[u].pc = "suspended"
        /\ sess[u].cap = "open"
        /\ Len(sess[u].chunks) = 2

\* C19: creating a stream makes no backend call: a generator that has not
\* been pulled has made no open, read or release call and holds no handle,
\* also after it was discarded.
C19_LazyOpen ==
    \A s \in Sessions :
        sess[s].pulls = 0
        => /\ sess[s].opens = 0
           /\ sess[s].read_calls = 0
           /\ sess[s].releases = 0
           /\ sess[s].cap = "none"

C19_Witness ==
    \E s \in Sessions :
        /\ sess[s].pulls = 0
        /\ sess[s].pc = "closed"
        /\ sess[s].exit = "cancel"
        /\ sess[s].via = "route"

====
